---- MODULE Spec2Model ----
(***************************************************************************)
(* A model of the firework engine of src/src/services/visual-engine.service.ts *)
(* (VisualEngineService): the particle-system registry and its four-stage  *)
(* life cycle, the shape rasterizer and its cache, the gesture triggers    *)
(* with their cooldown, and the continuous zoom.                           *)
(*                                                                         *)
(* Units.  JavaScript numbers are modelled in fixed point:                 *)
(*   lengths, velocities, opacity, scale, Math.random()  in 1/1000         *)
(*   seconds of the per-state timer                        in ms (dt = 16) *)
(*   wall-clock time (Date.now, setTimeout)                in ms           *)
(*   colour components                                      in 1/255        *)
(* Math.random() is an input: every call site draws from a named finite    *)
(* set of values (in 1/1000).                                              *)
(***************************************************************************)
EXTENDS Integers, Sequences, FiniteSets, TLC

VARIABLES
    \* ---- fields of VisualEngineService ----
    systems,              \* private systems: ParticleSystem[]
    scene,                \* meshes currently added to this.scene
    textPointsCache,      \* cache key -> target shape
    currentPaletteIndex,  \* index into PALETTES (0-based, as in the source)
    isPaused,             \* the pause signal
    isHandDetected,
    handGesture,
    mouse,                \* pointer in normalised device coordinates
    lastTriggerTime,      \* debounce timestamp
    currentAction,        \* status label signal
    cameraZ,              \* camera.position.z
    \* ---- the JavaScript environment ----
    now,                  \* Date.now()
    timers,               \* due times of the pending setTimeout callbacks of triggerFinale
    \* ---- observation (history) variables, written next to the code they observe ----
    nextId,               \* identity of the next mesh object to be allocated
    disposed,             \* mesh id -> number of geometry.dispose() calls
    hist,                 \* mesh id -> what has been observed of that system
    resolveLog,           \* request key -> the shape its first resolution returned, and whether it was stored
    lastResolve,          \* the last call of getPointsFromTextCanvas
    lastCall,             \* the call of updateHand made at the current clock reading, if any
    lastFiredAt,          \* clock reading of the last updateHand call that spawned or scheduled
    finaleLog,            \* ms after the last finale trigger at which each of its callbacks ran
    scriptLog,            \* the spawn requests runTextLoop has made, in order
    unpausedFor,          \* ms the engine was unpaused since the last scripted spawn (up to duration)
    \* ---- VisualEngineService: the scripted show ----
    mode,                 \* private mode: AppMode
    loops,                \* the running runTextLoop coroutines: position, index, elapsed, ms to wake
    \* ---- GestureService ----
    landmarks,            \* the hand landmarks of the last tracker result (none: << >>)
    handState,            \* the handState signal
    fault                 \* the last onResults call ended in an uncaught TypeError

engineVars == <<systems, scene, textPointsCache, currentPaletteIndex, isPaused>>
handVars == <<isHandDetected, handGesture, mouse, lastTriggerTime, currentAction, cameraZ>>
envVars == <<now, timers>>
obsVars == <<nextId, disposed, hist, resolveLog, lastResolve, lastCall, lastFiredAt>>
showVars == <<mode, loops, scriptLog, unpausedFor>>
trackerVars == <<landmarks, handState, fault>>
vars == <<engineVars, handVars, envVars, obsVars, finaleLog, showVars, trackerVars>>

----------------------------------------------------------------------------
(* Bounds of the model *)

\* Number of particles of a system whose buffers are followed: the first
\* TrackedParticles entries of every per-particle array.  The particle count
\* itself is kept exactly.  Every per-particle loop of the source treats the
\* particles independently of each other.
TrackedParticles == 1

\* Number of systems created in one run of the life-cycle specification.
MaxSpawns == 2

\* Wall-clock span of one run of the gesture specification, in ms.
MaxElapsed == 3400

\* How many frames before its removal a fading firework overlaps the next one.
LastFrames == 2

\* Granularity of the wall clock, in ms.
TimeStep == 100

\* Number of spawn requests the scripted loop makes in one run.
MaxPhrases == 5

\* Granularity of the time between two polls of the scripted loop, in ms.
ClockStep == 50

\* Date.now() when the run starts (any value beyond the longest cooldown).
StartTime == 5000
BurstGap == 12
MaxLoops == 2

----------------------------------------------------------------------------
(* Program constants *)

dt == 16
ExplodeDuration == 600
weaveDuration == 2400
FadeStep == 20
zoomSpeed == 200
MinCameraZ == 10000
MaxCameraZ == 120000
InitialCameraZ == 50000
startY == -60000
trailLength == 8000
HeartCount == 3000
fontSize == 100
AlphaThreshold == 128
RocketSize == 250
ExplodeSize == 180
VSignCooldown == 1500
OkSignCooldown == 3000
FinaleCount == 6
FinaleStep == 200
duration == 4000
PollInterval == 100

\* PALETTES[i].colors, as the hex literals of the source
PALETTES ==
    << <<16711680, 16731469, 16751001, 16777215, 14423100>>,
       <<16744192, 16753920, 16766720, 16777215, 16729344>>,
       <<16776960, 16777184, 16766720, 16777215, 14329120>>,
       <<65280, 3329330, 9498256, 16777215, 25600>>,
       <<65535, 4251856, 14745599, 16777215, 35723>>,
       <<255, 2003199, 8900346, 16777215, 128>>,
       <<9109759, 9662683, 15132410, 16777215, 4915330>> >>

Gestures == {"IDLE", "PINCH", "OPEN_PALM", "V_SIGN", "OK_SIGN", "FIST"}
States == <<"ROCKET", "EXPLODING", "WEAVING", "FADING">>

\* The phrases of runTextLoop and the texts of spawnRandomFirework
\* (transliterated where the source has non-ASCII characters).
sequence == <<"2026", "zhu-da-jia", "xin-nian-kuai-le", "ma-dao-cheng-gong">>
texts == <<"fu", "chun", "xi", "sparkles", "2026", "star4", "star5">>

None == "none"

----------------------------------------------------------------------------
(* Arithmetic helpers *)

\* Division of JavaScript numbers in fixed point, rounding toward zero.
Div(a, b) == IF a >= 0 THEN a \div b ELSE -((-a) \div b)

Min(a, b) == IF a <= b THEN a ELSE b
Max(a, b) == IF a >= b THEN a ELSE b

Prefix(s, k) == SubSeq(s, 1, Min(k, Len(s)))

\* THREE.Color.setHex: the three 8-bit components of a hex colour.
SetHex(hex) == << hex \div 65536, (hex \div 256) % 256, hex % 256 >>

White == <<255, 255, 255>>

----------------------------------------------------------------------------
(* Inputs: the values Math.random() returns at each call site (in 1/1000),  *)
(* and what the browser's canvas returns.                                  *)

\* One value per followed particle: a for the odd ones, b for the even ones.
DrawSeq(a, b) == [j \in 1..TrackedParticles |-> IF j % 2 = 1 THEN a ELSE b]

\* The draws of one spawnRocketFirework call:
\*   ctx  whether canvas.getContext('2d') returns a context
\*   z    the z jitter draw of each rasterized pixel
\*   vel  the (theta, phi, speed) draws of each particle
\*   pal  the palette draw of each particle
\*   rv   the rocket velocity draw
SpawnDraws ==
    { [ctx |-> TRUE, z |-> DrawSeq(0, 999), vel |-> DrawSeq(<<0, 500, 0>>, <<250, 500, 500>>),
       pal |-> DrawSeq(0, 600), rv |-> 0],
      [ctx |-> TRUE, z |-> DrawSeq(999, 0), vel |-> DrawSeq(<<250, 500, 500>>, <<0, 500, 0>>),
       pal |-> DrawSeq(600, 0), rv |-> 999],
      [ctx |-> FALSE, z |-> DrawSeq(0, 999), vel |-> DrawSeq(<<0, 500, 0>>, <<250, 500, 500>>),
       pal |-> DrawSeq(0, 600), rv |-> 0] }

\* The lag draw of a rocket-trail particle: at the head (white) or far behind (dimmed).
LagDraws == {0, 999}

\* The jitter draws of the integrating states.  The midpoint draw 0.5 gives
\* (Math.random() - 0.5) = 0; the jitter terms are kept in the formulas.
JitterDraws == {500}

\* The draws of one particle on one render tick, <<r1, r2, r3>> in call order:
\* (lag, x spread, z spread) in ROCKET, the per-axis jitter in WEAVING and FADING.
ParticleDraws(state) ==
    IF state = "ROCKET"
      THEN { <<l, j1, j2>> : l \in LagDraws, j1 \in JitterDraws, j2 \in JitterDraws }
      ELSE { <<j0, j1, j2>> : j0 \in JitterDraws, j1 \in JitterDraws, j2 \in JitterDraws }

\* ctx.measureText(text).width, rounded up, in pixels.
CanvasWidth(text) ==
    CASE text = "2026" -> 220
      [] text = "SHAPE_STAR" -> 500
      [] OTHER -> 100

\* ctx.getImageData after fillText: the pixels of non-zero alpha, in scan
\* order (rows top to bottom, left to right within a row).  "sparkles" is a
\* glyph the font lacks (nothing is drawn), "star4" is drawn too faintly.
CanvasPixels(text) ==
    CASE text = "2026" ->
           << [x |-> 10, y |-> 40, alpha |-> 255],
              [x |-> 11, y |-> 40, alpha |-> 100],
              [x |-> 200, y |-> 110, alpha |-> 200] >>
      [] text = "sparkles" -> << >>
      [] text = "star4" -> << [x |-> 50, y |-> 75, alpha |-> 128] >>
      [] OTHER -> << [x |-> 50, y |-> 75, alpha |-> 255] >>

----------------------------------------------------------------------------
(* Shape rasterizer: getPointsFromTextCanvas *)

\* A target shape: the point count and the first TrackedParticles points.
EmptyShape == [count |-> 0, points |-> << >>]

\* The parametric heart: point i of 3000, t = i/3000 * 2 pi.  For the first
\* indices 1.2*16*sin(t)^3 < 0.005 and 6 <= 1.2*(13cos t - 5cos 2t - 2cos 3t - cos 4t) < 6.001.
HeartPoint(i) == <<0, 6000, 0>>

HeartShape ==
    [count |-> HeartCount,
     points |-> [j \in 1..Min(HeartCount, TrackedParticles) |-> HeartPoint(j - 1)]]

InkOf(text) == SelectSeq(CanvasPixels(text), LAMBDA p : p.alpha > AlphaThreshold)

\* The points of a text: one per pixel whose alpha exceeds the threshold.
TextShape(text, scale, zr) ==
    LET ink == InkOf(text)
        width == CanvasWidth(text)
        height == (fontSize * 3) \div 2
        PointOf(j) ==
            << Div((ink[j].x * 1000 - width * 500) * scale, 1000),
               -Div((ink[j].y * 1000 - height * 500) * scale, 1000),
               zr[j] - 500 >>
    IN  [count |-> Len(ink),
         points |-> [j \in 1..Min(Len(ink), TrackedParticles) |-> PointOf(j)]]

CacheKey(text, shapeType) == IF shapeType # None THEN shapeType ELSE text

\* Mutant: the cache is never consulted.
CacheNeverHit(cacheKey) == FALSE

\* if (this.textPointsCache[cacheKey]) return this.textPointsCache[cacheKey];
CacheHit(cacheKey) == cacheKey \in DOMAIN textPointsCache

\* getPointsFromTextCanvas(text, scale, shapeType): the shape returned, the
\* cache afterwards, and whether the shape was computed by this call.
\* A cached array is returned whenever the key is present (an empty array is
\* truthy in JavaScript).
getPointsFromTextCanvas(text, scale, shapeType, d) ==
    LET cacheKey == CacheKey(text, shapeType)
    IN  IF CacheHit(cacheKey)
          THEN [targets |-> textPointsCache[cacheKey], cache |-> textPointsCache,
                computed |-> FALSE]
        ELSE IF shapeType = "HEART"
          THEN [targets |-> HeartShape, cache |-> textPointsCache @@ (cacheKey :> HeartShape),
                computed |-> TRUE]
        ELSE IF ~d.ctx
          THEN [targets |-> EmptyShape, cache |-> textPointsCache, computed |-> FALSE]
        ELSE LET points == TextShape(text, scale, d.z)
             IN  [targets |-> points, cache |-> textPointsCache @@ (cacheKey :> points),
                  computed |-> TRUE]

----------------------------------------------------------------------------
(* spawnRocketFirework *)

\* sin and cos at the angles the velocity draws select:
\* theta = 2 pi r (r in quarters), phi = pi r (r = 0 or 1/2).
SinTheta(r) == CASE r = 0 -> 0 [] r = 250 -> 1000 [] r = 500 -> 0 [] r = 750 -> -1000
CosTheta(r) == CASE r = 0 -> 1000 [] r = 250 -> 0 [] r = 500 -> -1000 [] r = 750 -> 0
SinPhi(r) == CASE r = 0 -> 0 [] r = 500 -> 1000
CosPhi(r) == CASE r = 0 -> 1000 [] r = 500 -> 0

\* The initial burst velocity of a particle from its (theta, phi, speed) draws.
InitialVelocity(v) ==
    LET speed == 300 + Div(v[3] * 1200, 1000)
    IN  << Div(Div(speed * SinPhi(v[2]), 1000) * CosTheta(v[1]), 1000),
           Div(Div(speed * SinPhi(v[2]), 1000) * SinTheta(v[1]), 1000),
           Div(speed * CosPhi(v[2]), 1000) >>

\* palette[Math.floor(Math.random() * palette.length)], as r, g, b.
PaletteColor(r) ==
    LET palette == PALETTES[currentPaletteIndex + 1]
    IN  SetHex(palette[((r * Len(palette)) \div 1000) + 1])

\* What is observed of a system from its creation on.
NewHist(sys, targets, targetY) ==
    [trace |-> << sys.state >>,
     points |-> targets.count,
     requestedY |-> targetY,
     assigned |-> sys.colors,
     ticks |-> [s \in {"ROCKET", "EXPLODING", "WEAVING", "FADING"} |-> 0],
     pausedInWeave |-> FALSE,
     releasedIn |-> None,
     releasedOpacity |-> 0]

\* The ParticleSystem pushed by spawnRocketFirework, with targetX and targetY
\* set on it before the call returns.  colors is the one Float32Array that is
\* both the system's base-colour field and the array of the mesh geometry's
\* colour attribute (THREE.BufferAttribute keeps the array it is given);
\* currentPositions is likewise the array of the position attribute.
NewSystem(id, targets, targetX, targetY, d) ==
    LET k == Len(targets.points)
    IN  [mesh |-> id,
         count |-> targets.count,
         currentPositions |-> [j \in 1..k |-> <<targetX, startY, 0>>],
         originalPositions |-> targets.points,
         velocities |-> [j \in 1..k |-> InitialVelocity(d.vel[j])],
         colors |-> [j \in 1..k |-> PaletteColor(d.pal[j])],
         state |-> "ROCKET",
         timer |-> 0,
         rocketPos |-> <<targetX, startY, 0>>,
         rocketVelocity |-> <<0, 800 + Div(d.rv * 400, 1000), 0>>,
         targetX |-> targetX,
         targetY |-> targetY,
         opacity |-> 1000,
         size |-> RocketSize]

RequestKey(text, scale, shapeType) == <<text, scale, shapeType>>

\* Mutant: the empty-shape check is missing.
ShapeNeverEmpty(targets) == FALSE

\* const count = targets.length; if (count === 0) return;
ShapeIsEmpty(targets) == targets.count = 0

\* spawnRocketFirework(text, scale, targetX, targetY, shapeType) with draws d:
\* the next values of everything it writes.
spawnRocketFirework(text, scale, targetX, targetY, shapeType, d) ==
    LET got == getPointsFromTextCanvas(text, scale, shapeType, d)
        targets == got.targets
        key == RequestKey(text, scale, shapeType)
        sys == NewSystem(nextId, targets, targetX, targetY, d)
        created == ~ShapeIsEmpty(targets)
    IN  /\ textPointsCache' = got.cache
        /\ systems' = IF created THEN Append(systems, sys) ELSE systems
        /\ scene' = IF created THEN scene \cup {nextId} ELSE scene
        /\ nextId' = IF created THEN nextId + 1 ELSE nextId
        /\ disposed' = IF created THEN disposed @@ (nextId :> 0) ELSE disposed
        /\ hist' = IF created THEN hist @@ (nextId :> NewHist(sys, targets, targetY)) ELSE hist
        /\ lastResolve' = [key |-> key, targets |-> targets, computed |-> got.computed,
                           repeated |-> key \in DOMAIN resolveLog,
                           created |-> created]
        /\ resolveLog' = IF key \in DOMAIN resolveLog THEN resolveLog
                         ELSE resolveLog @@ (key :> [targets |-> targets, stored |-> got.computed])

----------------------------------------------------------------------------
(* Initial state: the service after init() *)

NoCall == [gesture |-> None, present |-> FALSE, time |-> 0, firedBefore |-> 0,
           created |-> 0, timersAdded |-> 0]

NoResolve == [key |-> <<None, 0, None>>, targets |-> EmptyShape, computed |-> FALSE,
              repeated |-> FALSE, created |-> FALSE]

Init ==
    /\ systems = << >>
    /\ scene = {}
    /\ textPointsCache = << >>
    /\ currentPaletteIndex = 1
    /\ isPaused = FALSE
    /\ isHandDetected = FALSE
    /\ handGesture = "IDLE"
    /\ mouse = <<0, 0>>
    /\ lastTriggerTime = 0
    /\ currentAction = "READY"
    /\ cameraZ = InitialCameraZ
    /\ now = StartTime
    /\ timers = << >>
    /\ nextId = 1
    /\ disposed = << >>
    /\ hist = << >>
    /\ resolveLog = << >>
    /\ lastResolve = NoResolve
    /\ lastCall = NoCall
    /\ lastFiredAt = 0
    /\ finaleLog = << >>
    /\ scriptLog = << >>
    /\ unpausedFor = 0
    /\ mode = "COUNTDOWN"
    /\ loops = << >>
    /\ landmarks = << >>
    /\ handState = [gesture |-> "IDLE", x |-> 500, y |-> 500, z |-> 0, isPresent |-> FALSE]
    /\ fault = FALSE

----------------------------------------------------------------------------
(* animate: one render tick *)

\* Math.pow(lag, 6)
Pow6(r) ==
    LET sq == (r * r) \div 1000
        cube == (sq * r) \div 1000
    IN  (cube * cube) \div 1000

VecAdd(a, b) == << a[1] + b[1], a[2] + b[2], a[3] + b[3] >>

\* (sys as any).targetY || 0 and (sys as any).targetX || 0
\* Mutant: every rocket explodes at the default height.
TargetYDefault(sys) == 0

TargetYOf(sys) == sys.targetY
TargetXOf(sys) == sys.targetX

\* sys.mesh.geometry.attributes['color'].array: the array handed to the
\* BufferAttribute at spawn, which is sys.colors itself.
ColorAttributeArray(sys) == sys.colors

\* The trail position of a particle: recomputed from the rocket position.
TrailPosition(rocketPos, r) ==
    LET lagCurve == Pow6(r[1])
        spread == 50 + Div(lagCurve * 400, 1000)
    IN  << rocketPos[1] + Div((r[2] - 500) * spread, 1000),
           rocketPos[2] - Div(lagCurve * trailLength, 1000),
           rocketPos[3] + Div((r[3] - 500) * spread, 1000) >>

\* The colour written to colors[j*3..j*3+2] of the attribute array, where
\* base is what sys.colors[j*3..j*3+2] holds when it is read.
TrailColor(base, r) ==
    LET lagCurve == Pow6(r[1])
        fade == 1000 - lagCurve
        dimFactor == Div(600 * fade, 1000)
    IN  IF lagCurve < 20
          THEN White
          ELSE << Div(base[1] * dimFactor, 1000),
                  Div(base[2] * dimFactor, 1000),
                  Div(base[3] * dimFactor, 1000) >>

\* ROCKET: move the rocket up, redraw the trail, explode at the target height.
\* The writes go to the attribute array, that is to sys.colors; the loop that
\* restores the colours on explosion copies sys.colors[j] onto itself.
StepRocket(sys, pd) ==
    LET rocketPos == VecAdd(sys.rocketPos, sys.rocketVelocity)
        k == Len(sys.currentPositions)
        written == [j \in 1..k |-> TrailColor(ColorAttributeArray(sys)[j], pd[j])]
        moved == [sys EXCEPT !.rocketPos = rocketPos,
                             !.currentPositions = [j \in 1..k |-> TrailPosition(rocketPos, pd[j])],
                             !.colors = written]
    IN  IF rocketPos[2] >= TargetYOf(sys)
          THEN [moved EXCEPT !.state = "EXPLODING",
                             !.timer = 0,
                             !.size = ExplodeSize,
                             !.colors = [j \in 1..k |-> moved.colors[j]]]
          ELSE moved

\* sys.timer is a double that accumulates 0.016: the sum of 150 additions is
\* 2.4000000000000017, above 2.4; no multiple of 0.016 equals 0.6.
TimerExceeds(timer, limit) ==
    timer > limit \/ (timer = limit /\ limit = weaveDuration)

\* Mutant: the burst goes straight to FADING.
StepExplodingSkipsWeave(sys) ==
    IF TimerExceeds(sys.timer, ExplodeDuration)
      THEN [sys EXCEPT !.state = "FADING", !.timer = 0]
      ELSE sys

\* EXPLODING: integrate the burst velocity, damp it by 0.9.
StepExploding(sys) ==
    LET k == Len(sys.currentPositions)
        moved == [sys EXCEPT
                    !.currentPositions = [j \in 1..k |-> VecAdd(sys.currentPositions[j], sys.velocities[j])],
                    !.velocities = [j \in 1..k |-> << Div(sys.velocities[j][1] * 9, 10),
                                                      Div(sys.velocities[j][2] * 9, 10),
                                                      Div(sys.velocities[j][3] * 9, 10) >>]]
    IN  IF TimerExceeds(sys.timer, ExplodeDuration)
          THEN [moved EXCEPT !.state = "WEAVING", !.timer = 0]
          ELSE moved

\* progress = Math.min(sys.timer / weaveDuration, 1.0)
Progress(timer) == Min(Div(timer * 1000, weaveDuration), 1000)

\* Mutant: WEAVING leaves the opacity at 1.
WeaveOpacityKept(progress) == 1000

\* The opacity WEAVING sets: 1 up to progress 0.6, then down linearly to 0.5.
WeaveOpacity(progress) ==
    IF progress > 600 THEN 1000 - Div((progress - 600) * 500, 400) ELSE 1000

\* WEAVING: pull every particle toward its target, jitter it, fade late.
StepWeaving(sys, pd) ==
    LET k == Len(sys.currentPositions)
        progress == Progress(sys.timer)
        moveFactor == Div(1000000 - progress * progress, 1000)   \* in 1/10000
        spread == 20 + Div(progress * 100, 1000)
        Target(j) == << sys.originalPositions[j][1] + TargetXOf(sys),
                        sys.originalPositions[j][2] + TargetYOf(sys),
                        sys.originalPositions[j][3] >>
        Pull(j, a) == Div((Target(j)[a] - sys.currentPositions[j][a]) * moveFactor, 10000)
        Jitter(j, a) == Div((pd[j][a] - 500) * spread, 1000)
        moved == [sys EXCEPT
                    !.opacity = WeaveOpacity(progress),
                    !.currentPositions =
                        [j \in 1..k |-> << sys.currentPositions[j][1] + Pull(j, 1) + Jitter(j, 1),
                                           sys.currentPositions[j][2] + Pull(j, 2) + Jitter(j, 2),
                                           sys.currentPositions[j][3] + Pull(j, 3) + Jitter(j, 3) >>]]
    IN  IF TimerExceeds(sys.timer, weaveDuration)
          THEN [moved EXCEPT !.state = "FADING"]
          ELSE moved

\* Mutant: a particle is dropped on every tick of the fade.
StepFadingShrinks(sys, pd) ==
    [sys EXCEPT !.opacity = @ - FadeStep, !.count = Max(0, @ - 1)]

\* Mutant: the drift of the fade is written to the target offsets as well.
StepFadingMovesTargets(sys, pd) ==
    [sys EXCEPT
       !.opacity = @ - FadeStep,
       !.originalPositions =
           [j \in 1..Len(sys.originalPositions) |->
               << sys.originalPositions[j][1], sys.originalPositions[j][2] - 50,
                  sys.originalPositions[j][3] >>]]

\* FADING: lower the opacity, drift down.  The system is removed when the
\* opacity has reached 0.
StepFading(sys, pd) ==
    LET k == Len(sys.currentPositions)
    IN  [sys EXCEPT
           !.opacity = @ - FadeStep,
           !.currentPositions =
               [j \in 1..k |-> << sys.currentPositions[j][1] + Div((pd[j][1] - 500) * 150, 1000),
                                  sys.currentPositions[j][2] - 50,
                                  sys.currentPositions[j][3] + Div((pd[j][2] - 500) * 150, 1000) >>]]

\* The body of the loop for one system: the system afterwards and whether
\* it was removed (scene.remove, geometry.dispose, splice).
AdvanceSystem(sys, pd) ==
    LET timed == [sys EXCEPT !.timer = @ + dt]
    IN  CASE timed.state = "ROCKET" -> [sys |-> StepRocket(timed, pd), remove |-> FALSE]
          [] timed.state = "EXPLODING" -> [sys |-> StepExploding(timed), remove |-> FALSE]
          [] timed.state = "WEAVING" -> [sys |-> StepWeaving(timed, pd), remove |-> FALSE]
          [] timed.state = "FADING" ->
               LET faded == StepFading(timed, pd)
               IN  [sys |-> faded, remove |-> faded.opacity <= 0]

\* Mutant: the released system is left in the registry.
SpliceNothing(list, i) == list

\* Mutant: the removal takes the first system of the registry, splice(0, 1).
SpliceFirst(list, i) == Tail(list)

\* this.systems.splice(i, 1)
Splice(list, i) == SubSeq(list, 1, i - 1) \o SubSeq(list, i + 1, Len(list))

\* The index the loop starts from: this.systems.length - 1 (1-based here).
LoopStart(list) == Len(list)

\* for (let i = this.systems.length - 1; i >= 0; i--): the registry after the
\* iterations from index i down, and the log of the systems advanced.
\* D[m] holds the draws made for the system whose mesh is m.
RECURSIVE AnimateLoop(_, _, _, _)
AnimateLoop(list, i, D, log) ==
    IF i < 1 THEN [systems |-> list, log |-> log]
    ELSE IF i > Len(list) THEN AnimateLoop(list, i - 1, D, log)
    ELSE LET r == AdvanceSystem(list[i], D[list[i].mesh])
             entry == [mesh |-> list[i].mesh, before |-> list[i].state,
                       after |-> r.sys.state, opacity |-> r.sys.opacity,
                       released |-> r.remove]
         IN  AnimateLoop(IF r.remove THEN Splice(list, i) ELSE [list EXCEPT ![i] = r.sys],
                         i - 1, D, Append(log, entry))

\* Mutant: the pause flag is not checked.
PhysicsNeverSkipped == FALSE

\* Mutant: the pause check is inverted.
PhysicsSkippedWhenRunning == ~isPaused

\* PAUSE LOGIC: if paused, skip particle physics.
PhysicsSkipped == isPaused

\* The observations of one log entry, added to hist and disposed.
Observe(h, e) ==
    IF e.released
      THEN [h EXCEPT ![e.mesh] =
              [trace |-> Append(h[e.mesh].trace, "REMOVED"),
               points |-> 0,
               requestedY |-> 0,
               assigned |-> << >>,
               ticks |-> [s \in DOMAIN h[e.mesh].ticks |-> 0],
               pausedInWeave |-> FALSE,
               releasedIn |-> e.after,
               releasedOpacity |-> e.opacity]]
      ELSE [h EXCEPT ![e.mesh].trace = IF e.after = e.before THEN @ ELSE Append(@, e.after),
                     ![e.mesh].ticks[e.before] = @ + 1]

RECURSIVE ObserveAll(_, _)
ObserveAll(h, log) ==
    IF log = << >> THEN h ELSE ObserveAll(Observe(h, Head(log)), Tail(log))

RECURSIVE CountReleases(_, _)
CountReleases(dsp, log) ==
    IF log = << >> THEN dsp
    ELSE CountReleases(IF Head(log).released
                         THEN [dsp EXCEPT ![Head(log).mesh] = @ + 1] ELSE dsp,
                       Tail(log))

\* The draws of one tick: for every live system, the draws of its particles.
TickDraws ==
    { D \in [ {systems[i].mesh : i \in 1..Len(systems)} ->
               UNION { [1..TrackedParticles -> ParticleDraws(st)] : st \in {"ROCKET", "WEAVING"} } ] :
        \A i \in 1..Len(systems) :
            D[systems[i].mesh] \in [1..TrackedParticles -> ParticleDraws(systems[i].state)] }

\* Mutant: the zoom is not clamped.
ZoomedCameraZUnclamped ==
    IF isHandDetected /\ handGesture = "PINCH" THEN cameraZ - zoomSpeed
    ELSE IF isHandDetected /\ handGesture = "OPEN_PALM" THEN cameraZ + zoomSpeed
    ELSE cameraZ

\* Mutant: the zoom sits behind the pause gate.
ZoomedCameraZGated ==
    IF isPaused THEN cameraZ
    ELSE IF isHandDetected /\ handGesture = "PINCH" THEN Max(MinCameraZ, cameraZ - zoomSpeed)
    ELSE IF isHandDetected /\ handGesture = "OPEN_PALM" THEN Min(MaxCameraZ, cameraZ + zoomSpeed)
    ELSE cameraZ

\* The continuous zoom of animate.
ZoomedCameraZ ==
    IF isHandDetected /\ handGesture = "PINCH" THEN Max(MinCameraZ, cameraZ - zoomSpeed)
    ELSE IF isHandDetected /\ handGesture = "OPEN_PALM" THEN Min(MaxCameraZ, cameraZ + zoomSpeed)
    ELSE cameraZ

ZoomedAction ==
    IF isHandDetected /\ handGesture = "PINCH" THEN "ZOOM IN (PINCH)"
    ELSE IF isHandDetected /\ handGesture = "OPEN_PALM" THEN "ZOOM OUT (PALM)"
    ELSE currentAction

\* animate(): one frame.
Animate ==
    \E D \in TickDraws :
        LET done == IF PhysicsSkipped
                      THEN [systems |-> systems, log |-> << >>]
                      ELSE AnimateLoop(systems, LoopStart(systems), D, << >>)
            gone == { done.log[n].mesh : n \in { m \in 1..Len(done.log) : done.log[m].released } }
        IN  /\ cameraZ' = ZoomedCameraZ
            /\ currentAction' = ZoomedAction
            /\ systems' = done.systems
            /\ scene' = scene \ gone
            /\ disposed' = CountReleases(disposed, done.log)
            /\ hist' = IF PhysicsSkipped
                         THEN [id \in DOMAIN hist |->
                                 IF \E i \in 1..Len(systems) :
                                      systems[i].mesh = id /\ systems[i].state = "WEAVING"
                                   THEN [hist[id] EXCEPT !.pausedInWeave = TRUE]
                                   ELSE hist[id]]
                         ELSE ObserveAll(hist, done.log)
            /\ UNCHANGED <<textPointsCache, currentPaletteIndex, isPaused, isHandDetected,
                           handGesture, mouse, lastTriggerTime, now, timers, nextId,
                           resolveLog, lastResolve, lastCall, lastFiredAt, finaleLog,
                           showVars, trackerVars>>

\* The pause/resume toggle of the control surface: isPaused.update(v => !v).
TogglePause ==
    /\ isPaused' = ~isPaused
    /\ UNCHANGED <<systems, scene, textPointsCache, currentPaletteIndex, handVars, envVars,
                   nextId, disposed, hist, resolveLog, lastResolve, lastCall, lastFiredAt,
                   finaleLog, showVars, trackerVars>>

----------------------------------------------------------------------------
(* Hand input: updateHand, the discrete triggers and the finale timers *)

\* The pointer positions the tracker reports, <<x, y>> in [0, 1].
PointerInputs == { <<300, 600>> }

\* The draws of the spawns a gesture causes.
TriggerDraws == { d \in SpawnDraws : d.ctx /\ d.rv = 0 }

\* The three draws of spawnRandomFirework, <<text, x, y>>.
FinaleDraws == { <<0, 0, 0>>, <<500, 999, 999>> }

\* Mutant: the cooldown ends one instant early.
CooldownOverInclusive(cooldown) == now - lastTriggerTime >= cooldown

\* now - this.lastTriggerTime > cooldown
CooldownOver(cooldown) == now - lastTriggerTime > cooldown

\* Mutant: the triggers do not look at the presence of the hand.
TriggeredWithoutHand(gesture, isPresent) ==
    IF gesture = "V_SIGN" /\ CooldownOver(VSignCooldown) THEN "HEART"
    ELSE IF gesture = "OK_SIGN" /\ CooldownOver(OkSignCooldown) THEN "FINALE"
    ELSE None

\* Which discrete action this call of updateHand takes.
Triggered(gesture, isPresent) ==
    IF ~isPresent THEN None
    ELSE IF gesture = "V_SIGN" /\ CooldownOver(VSignCooldown) THEN "HEART"
    ELSE IF gesture = "OK_SIGN" /\ CooldownOver(OkSignCooldown) THEN "FINALE"
    ELSE None

\* Mutant: only the heart stamps the trigger time.
TriggerTimeHeartOnly(fired) == IF fired = "HEART" THEN now ELSE lastTriggerTime

\* this.lastTriggerTime = now, in both trigger branches.
TriggerTimeAfter(fired) == IF fired # None THEN now ELSE lastTriggerTime

\* The status label updateHand leaves.
ActionAfter(gesture, isPresent, fired) ==
    IF ~isPresent THEN "NO SIGNAL"
    ELSE IF fired = "HEART" THEN "LOVE (V-SIGN)"
    ELSE IF fired = "FINALE" THEN "FINALE (OK)"
    ELSE IF gesture \in {"V_SIGN", "OK_SIGN", "PINCH", "OPEN_PALM"} THEN currentAction
    ELSE "READY"

\* spawnSpecialShape(type)
spawnSpecialShape(type, d) ==
    spawnRocketFirework(IF type = "HEART" THEN "SHAPE_HEART" ELSE "SHAPE_STAR",
                        1000, 0, 0, type, d)

\* Mutant: the six callbacks are all due at once.
triggerFinaleAtOnce == [i \in 1..FinaleCount |-> now]

\* triggerFinale(): the due times of the timers it sets, in order.
triggerFinale == [i \in 1..FinaleCount |-> now + (i - 1) * FinaleStep]

\* spawnRandomFirework() with draws r = <<text, x, y>>.
spawnRandomFirework(r, d) ==
    spawnRocketFirework(texts[Div(r[1] * Len(texts), 1000) + 1], 250,
                        (r[2] - 500) * 80, (r[3] - 500) * 40, None, d)

\* updateHand(x, y, gesture, isPresent) with the draws d of the spawn it may make.
UpdateHand(x, y, gesture, isPresent, d) ==
    LET fired == Triggered(gesture, isPresent)
    IN  /\ isHandDetected' = isPresent
        /\ handGesture' = gesture
        /\ mouse' = <<(x * 2) - 1000, -(y * 2) + 1000>>
        /\ IF fired = "HEART"
             THEN spawnSpecialShape("HEART", d)
             ELSE UNCHANGED <<systems, scene, textPointsCache, nextId, disposed, hist,
                              lastResolve, resolveLog>>
        /\ timers' = IF fired = "FINALE" THEN timers \o triggerFinale ELSE timers
        /\ lastTriggerTime' = TriggerTimeAfter(fired)
        /\ currentAction' = ActionAfter(gesture, isPresent, fired)
        /\ lastCall' = [gesture |-> gesture, present |-> isPresent, time |-> now,
                        firedBefore |-> lastFiredAt,
                        created |-> Len(systems') - Len(systems),
                        timersAdded |-> Len(timers') - Len(timers)]
        /\ lastFiredAt' = IF Len(systems') > Len(systems) \/ Len(timers') > Len(timers)
                            THEN now ELSE lastFiredAt
        /\ finaleLog' = IF Len(timers') > Len(timers) THEN << >> ELSE finaleLog
        /\ UNCHANGED <<currentPaletteIndex, isPaused, cameraZ, now, showVars, trackerVars>>

\* The tracker delivers a hand state.
HandInput ==
    \E p \in PointerInputs, gesture \in Gestures, isPresent \in BOOLEAN, d \in TriggerDraws :
        UpdateHand(p[1], p[2], gesture, isPresent, d)

\* The timer the event loop runs next: the earliest due time, first set first.
NextTimer ==
    CHOOSE i \in 1..Len(timers) :
        /\ \A j \in 1..Len(timers) : timers[j] >= timers[i]
        /\ \A j \in 1..(i - 1) : timers[j] > timers[i]

\* A setTimeout callback of triggerFinale runs.
FinaleTimer ==
    /\ timers # << >>
    /\ timers[NextTimer] <= now
    /\ \E r \in FinaleDraws, d \in TriggerDraws : spawnRandomFirework(r, d)
    /\ timers' = SubSeq(timers, 1, NextTimer - 1) \o SubSeq(timers, NextTimer + 1, Len(timers))
    /\ finaleLog' = Append(finaleLog, now - lastFiredAt)
    /\ UNCHANGED <<currentPaletteIndex, isPaused, handVars, now, lastCall, lastFiredAt,
                   showVars, trackerVars>>

\* The wall clock advances, by one step or up to the next timer that falls
\* due; a timer runs at its due time.  The run ends after MaxElapsed, once
\* the timers then pending have run.
AdvanceTime ==
    /\ now + TimeStep <= StartTime + MaxElapsed \/ timers # << >>
    /\ \A i \in 1..Len(timers) : timers[i] > now
    /\ now' = IF timers = << >> THEN now + TimeStep
              ELSE Min(now + TimeStep, timers[NextTimer])
    /\ lastCall' = NoCall
    /\ UNCHANGED <<engineVars, handVars, timers, nextId, disposed, hist, resolveLog,
                   lastResolve, lastFiredAt, finaleLog, showVars, trackerVars>>

HandNext ==
    \/ HandInput
    \/ FinaleTimer
    \/ AdvanceTime

HandSpec == Init /\ [][HandNext]_vars

\* The hand shows one of the two trigger gestures.
FinaleInput ==
    \E p \in PointerInputs, gesture \in {"OK_SIGN", "V_SIGN"}, d \in TriggerDraws :
        UpdateHand(p[1], p[2], gesture, TRUE, d)

FinaleNext ==
    \/ FinaleInput
    \/ FinaleTimer
    \/ AdvanceTime

\* The event loop runs every callback that is due, and time passes.
FinaleSpec == Init /\ [][FinaleNext]_vars /\ WF_vars(FinaleTimer) /\ WF_vars(AdvanceTime)

\* The hand states that act through the render loop only: every gesture
\* without a hand, and the gestures that are no discrete trigger with one.
ZoomInput ==
    \E p \in PointerInputs, gesture \in Gestures, isPresent \in BOOLEAN, d \in TriggerDraws :
        /\ isPresent => gesture \notin {"V_SIGN", "OK_SIGN"}
        /\ UpdateHand(p[1], p[2], gesture, isPresent, d)

ZoomNext ==
    \/ ZoomInput
    \/ Animate
    \/ TogglePause

ZoomSpec == Init /\ [][ZoomNext]_vars

\* The hand shows a continuous gesture or OK_SIGN, or is lost.  The first
\* OK_SIGN starts the cooldown; no time passes in this specification, so
\* the cooldown then stays in force and the finale's timers stay pending.
CooldownInput ==
    \E p \in PointerInputs, gesture \in {"PINCH", "OPEN_PALM", "OK_SIGN"},
       isPresent \in BOOLEAN, d \in TriggerDraws :
        UpdateHand(p[1], p[2], gesture, isPresent, d)

CooldownNext ==
    \/ CooldownInput
    \/ Animate
    \/ TogglePause

CooldownSpec == Init /\ [][CooldownNext]_vars

----------------------------------------------------------------------------
(* The particle engine on its own: spawn requests, render ticks, pause *)

\* The requests the callers of spawnRocketFirework make: the scripted loop
\* (centred), spawnRandomFirework (rx = (r - 0.5) * 80, ry = (r - 0.5) * 40,
\* scale 0.25) and spawnSpecialShape('HEART').
SpawnRequests ==
    { [text |-> "2026", scale |-> 250, targetX |-> 0, targetY |-> 0, shapeType |-> None],
      [text |-> "2026", scale |-> 250, targetX |-> -40000, targetY |-> -20000, shapeType |-> None],
      [text |-> "sparkles", scale |-> 250, targetX |-> 39920, targetY |-> 19960, shapeType |-> None],
      [text |-> "SHAPE_HEART", scale |-> 1000, targetX |-> 0, targetY |-> 0, shapeType |-> "HEART"] }

\* One call of spawnRocketFirework.
Spawn(req, d) ==
    /\ spawnRocketFirework(req.text, req.scale, req.targetX, req.targetY, req.shapeType, d)
    /\ UNCHANGED <<currentPaletteIndex, isPaused, handVars, envVars, lastCall, lastFiredAt,
                   finaleLog, showVars, trackerVars>>

\* A request arrives while no firework is in the air, or while the last one
\* is in the last frames of its fade.
SpawnWhenIdle ==
    \E req \in SpawnRequests, d \in SpawnDraws :
        /\ \A i \in 1..Len(systems) :
              systems[i].state = "FADING" /\ systems[i].opacity <= LastFrames * FadeStep
        /\ nextId <= MaxSpawns
        /\ Spawn(req, d)

Next ==
    \/ SpawnWhenIdle
    \/ Animate
    \/ TogglePause

Spec == Init /\ [][Next]_vars

\* Ordinary-text requests at the two scales of the source: 0.25 (the random
\* fireworks, and phrases longer than two characters) and 0.35 (shorter phrases).
ScaleRequests ==
    { [text |-> t, scale |-> sc, targetX |-> 0, targetY |-> 0, shapeType |-> None] :
        t \in {"2026", "fu"}, sc \in {250, 350} }

\* spawnRocketFirework is called with one of them.
ScaleSpawn ==
    \E req \in ScaleRequests, d \in SpawnDraws :
        /\ nextId <= MaxSpawns
        /\ Spawn(req, d)

ScaleNext ==
    \/ ScaleSpawn
    \/ TogglePause

ScaleSpec == Init /\ [][ScaleNext]_vars

\* Random fireworks of one text at three heights: ry = (r - 0.5) * 40 for the
\* draws 0.5, 0.25 and 0.
BurstRequests ==
    { [text |-> "2026", scale |-> 250, targetX |-> 0, targetY |-> ry, shapeType |-> None] :
        ry \in {0, -10000, -20000} }

\* Requests arrive in close succession, as the callbacks of a finale do
\* (200 ms apart): the second one BurstGap render ticks after the first,
\* while the first rocket is still rising.
BurstSpawn ==
    \E req \in BurstRequests, d \in SpawnDraws :
        /\ \/ systems = << >>
           \/ /\ Len(systems) = 1
              /\ systems[1].state = "ROCKET"
              /\ hist[systems[1].mesh].ticks["ROCKET"] = BurstGap
        /\ nextId <= MaxSpawns
        /\ Spawn(req, d)

BurstNext ==
    \/ BurstSpawn
    \/ Animate
    \/ TogglePause

BurstSpec == Init /\ [][BurstNext]_vars

----------------------------------------------------------------------------
(* Properties of the particle engine *)

LifeCycle == <<"ROCKET", "EXPLODING", "WEAVING", "FADING", "REMOVED">>

IsPrefix(s, t) == Len(s) <= Len(t) /\ s = SubSeq(t, 1, Len(s))

Last(s) == s[Len(s)]

LiveIds == { systems[i].mesh : i \in 1..Len(systems) }

SystemOf(id) == systems[CHOOSE i \in 1..Len(systems) : systems[i].mesh = id]

\* C1: the states a system is seen in, in order and without repetition, are
\* ROCKET, EXPLODING, WEAVING, FADING and then removal: always a prefix of
\* that sequence, ending in the state the system is in now (or in its removal).
C1_StateSequence ==
    \A id \in DOMAIN hist :
        /\ hist[id].trace # << >>
        /\ IsPrefix(hist[id].trace, LifeCycle)
        /\ IF id \in LiveIds
             THEN Last(hist[id].trace) = SystemOf(id).state
             ELSE Last(hist[id].trace) = "REMOVED"

\* C1 witness: a system that went through all four states and was removed.
C1_Witness == \E id \in DOMAIN hist : hist[id].trace = LifeCycle

\* C4: a render tick that runs while the pause flag is set changes no system
\* (state, timer, positions, velocities, opacity) and removes none; and every
\* system that has left WEAVING spent weaveDuration / dt unpaused ticks in it,
\* whether or not it was paused there.
C4_PauseFreezes ==
    /\ [][(isPaused /\ Animate) => UNCHANGED <<systems, scene, disposed>>]_vars
    /\ [](\A i \in 1..Len(systems) :
             systems[i].state = "FADING" =>
                 hist[systems[i].mesh].ticks["WEAVING"] * dt = weaveDuration)

\* C4 witness: a system that was paused in WEAVING and has left WEAVING.
C4_Witness ==
    \E i \in 1..Len(systems) :
        /\ systems[i].state = "FADING"
        /\ hist[systems[i].mesh].pausedInWeave

\* C5: the resources of a system are released exactly once, on the tick that
\* finds it FADING with opacity <= 0 (so no such system stays in the registry),
\* and a released system is never advanced or released again.
C5_ReleasedOnce ==
    /\ [](\A id \in DOMAIN disposed :
             /\ disposed[id] <= 1
             /\ (disposed[id] = 1) <=> (id \notin LiveIds)
             /\ (id \in scene) <=> (id \in LiveIds)
             /\ id \in LiveIds => ~(SystemOf(id).state = "FADING" /\ SystemOf(id).opacity <= 0)
             /\ disposed[id] = 1 =>
                    /\ hist[id].releasedIn = "FADING"
                    /\ hist[id].releasedOpacity <= 0)
    /\ [][\A id \in DOMAIN disposed :
             disposed[id] >= 1 => (hist'[id] = hist[id] /\ disposed'[id] = disposed[id])]_vars

\* C5 witness: a released system, with render ticks of a later system after it.
C5_Witness ==
    \E id \in DOMAIN disposed :
        /\ disposed[id] = 1
        /\ \E i \in 1..Len(systems) : systems[i].state = "WEAVING"

\* C6: the base colour stored for every particle is the palette colour it
\* was assigned at spawn, in every state.
C6_BaseColorKept ==
    \A i \in 1..Len(systems) : systems[i].colors = hist[systems[i].mesh].assigned

\* C9: a spawn request whose shape has no points leaves the registry, the
\* scene and the status label as they are, and no system without particles
\* is ever in the registry.
C9_EmptyShapeDropped ==
    /\ [][(\E req \in SpawnRequests, d \in SpawnDraws :
              /\ Spawn(req, d)
              /\ getPointsFromTextCanvas(req.text, req.scale, req.shapeType, d).targets.count = 0)
          => UNCHANGED <<systems, scene, nextId, disposed, hist, currentAction>>]_vars
    /\ [](\A i \in 1..Len(systems) : systems[i].count > 0)

\* C9 witness: a request for a text that rasterizes to nothing has been made
\* while a firework was in the registry.
C9_Witness ==
    /\ systems # << >>
    /\ lastResolve.key[1] = "sparkles"
    /\ lastResolve.targets.count = 0
    /\ ~lastResolve.created

UnpausedTick == ~isPaused /\ Animate

\* The engine does not stay paused forever.
Resume == isPaused /\ TogglePause

\* The request of the end-to-end run: the first phrase, centred.
LiveRequests == { req \in SpawnRequests : req.targetX = 0 /\ req.text = "2026" }

LiveSpawn ==
    \E req \in LiveRequests, d \in { e \in SpawnDraws : e.ctx /\ e.rv = 999 } :
        /\ systems = << >>
        /\ nextId <= MaxSpawns
        /\ Spawn(req, d)

LiveNext ==
    \/ LiveSpawn
    \/ Animate
    \/ TogglePause

LiveSpec == Init /\ [][LiveNext]_vars /\ SF_vars(UnpausedTick) /\ WF_vars(Resume)

\* The system has been through the whole life cycle and is out of the registry.
FullyRemoved(id) ==
    /\ id \in DOMAIN hist
    /\ hist[id].trace = LifeCycle
    /\ id \notin LiveIds

\* C8: with render ticks that keep advancing the systems and an engine that
\* does not stay paused forever, every system created is eventually removed,
\* having been in all four states.
C8_EventuallyRemoved ==
    \A id \in 1..MaxSpawns : (id \in DOMAIN hist) ~> FullyRemoved(id)

\* C8 witness: a created system has been removed and its mesh is out of the scene.
C8_Witness ==
    \E id \in DOMAIN hist :
        /\ Len(hist[id].trace) = Len(LifeCycle)
        /\ id \notin scene
        /\ disposed[id] = 1

----------------------------------------------------------------------------
(* Properties of the hand input (HandSpec) and of the zoom (ZoomSpec) *)

\* The call of updateHand made at the current clock reading, if any.
CallMade == lastCall.gesture # None

\* Time since the last call that spawned a heart or scheduled a finale
\* (since the epoch when there was none), as that call observed it.
SinceLastFired == lastCall.time - lastCall.firedBefore

\* C2: an updateHand call with V_SIGN and a hand present spawns a heart
\* exactly when more than 1500 ms have passed since the last fired trigger,
\* and then spawns exactly one; a V_SIGN inside the cooldown spawns nothing.
C2_VSignCooldown ==
    (CallMade /\ lastCall.gesture = "V_SIGN" /\ lastCall.present)
        => /\ lastCall.created = (IF SinceLastFired > VSignCooldown THEN 1 ELSE 0)
           /\ lastCall.timersAdded = 0
           /\ lastCall.created = 1 =>
                 /\ Last(systems).mesh = nextId - 1
                 /\ lastResolve.key = <<"SHAPE_HEART", 1000, "HEART">>
                 /\ Last(systems).targetX = 0 /\ Last(systems).targetY = 0

\* A V_SIGN arrives at most 1000 ms after a heart was spawned and spawns nothing.
C2_Witness ==
    /\ CallMade /\ lastCall.gesture = "V_SIGN" /\ lastCall.present
    /\ lastCall.firedBefore >= StartTime
    /\ SinceLastFired > 0 /\ SinceLastFired <= 1000
    /\ lastCall.created = 0
    /\ nextId = 2 /\ timers = << >>

\* C3: V_SIGN and OK_SIGN share one cooldown timestamp.  It always equals the
\* time of the last fired trigger of either kind; a call that fires sets it to
\* the current time and any other call leaves it alone; OK_SIGN fires (sets
\* its six timers) exactly when more than 3000 ms have passed since then;
\* no other gesture, and no call without a hand, fires anything.
C3_SharedCooldown ==
    /\ lastTriggerTime = lastFiredAt
    /\ CallMade =>
         LET firedNow == lastCall.created > 0 \/ lastCall.timersAdded > 0
         IN  /\ lastTriggerTime = (IF firedNow THEN lastCall.time ELSE lastCall.firedBefore)
             /\ (lastCall.gesture = "OK_SIGN" /\ lastCall.present)
                   => /\ lastCall.timersAdded =
                           (IF SinceLastFired > OkSignCooldown THEN FinaleCount ELSE 0)
                      /\ lastCall.created = 0
             /\ (lastCall.gesture \notin {"V_SIGN", "OK_SIGN"} \/ ~lastCall.present)
                   => ~firedNow

\* An OK_SIGN arrives more than 1500 ms but not more than 3000 ms after a
\* heart was spawned by V_SIGN, and is suppressed.
C3_Witness ==
    /\ CallMade /\ lastCall.gesture = "OK_SIGN" /\ lastCall.present
    /\ lastCall.firedBefore >= StartTime
    /\ SinceLastFired > VSignCooldown /\ SinceLastFired <= OkSignCooldown
    /\ lastCall.timersAdded = 0
    /\ nextId = 2 /\ timers = << >>

\* C7: the camera distance stays within [10, 120] whatever the interleaving
\* of updateHand calls and render ticks.
C7_ZoomClamped == MinCameraZ <= cameraZ /\ cameraZ <= MaxCameraZ

\* The camera sits at the near limit and a further PINCH tick has left it there.
C7_Witness ==
    /\ cameraZ = MinCameraZ
    /\ isHandDetected /\ handGesture = "PINCH"
    /\ currentAction = "ZOOM IN (PINCH)"

----------------------------------------------------------------------------
(* Properties of the particle arrays and of the render loop (Spec) *)

\* The length of a per-particle array of a system of n particles, in the
\* particles the model follows.
Followed(n) == Min(n, TrackedParticles)

----------------------------------------------------------------------------
(* Properties of a lost hand (ZoomSpec) *)

\* C12: an updateHand call without a hand, whatever its gesture, sets the
\* status label to NO SIGNAL, spawns nothing, schedules no finale and leaves
\* the cooldown timestamp alone; and while no hand is detected no render
\* tick changes the camera distance.
C12_NoHandNoAction ==
    /\ [][(\E p \in PointerInputs, gesture \in Gestures, d \in TriggerDraws :
               UpdateHand(p[1], p[2], gesture, FALSE, d))
           => /\ currentAction' = "NO SIGNAL"
              /\ UNCHANGED <<systems, scene, textPointsCache, nextId, timers,
                             lastTriggerTime, cameraZ, isPaused>>]_vars
    /\ [][(~isHandDetected /\ Animate) => cameraZ' = cameraZ]_vars

\* C12 witness: after some zooming the hand is lost while showing V_SIGN with
\* the cooldown long over; nothing was spawned or scheduled.
C12_Witness ==
    /\ ~isHandDetected /\ handGesture = "V_SIGN"
    /\ currentAction = "NO SIGNAL"
    /\ cameraZ < InitialCameraZ
    /\ now - lastTriggerTime > OkSignCooldown
    /\ nextId = 1 /\ timers = << >>

\* C15: at the end of the tick on which a system has gone from ROCKET to
\* EXPLODING, the colour displayed for every particle (the colour attribute
\* of its geometry) is the palette colour assigned to it at spawn.
C15_ColorRestored ==
    \A i \in 1..Len(systems) :
        (systems[i].state = "EXPLODING" /\ hist[systems[i].mesh].ticks["EXPLODING"] = 0)
            => ColorAttributeArray(systems[i]) = hist[systems[i].mesh].assigned

\* C16: the timer of every system is dt times the number of unpaused ticks
\* it has spent in its current state (0 right after entering a state).
C16_TimerCountsState ==
    \A i \in 1..Len(systems) :
        systems[i].timer = dt * hist[systems[i].mesh].ticks[systems[i].state]

\* The rocket height after n ticks of ascent.
RocketHeight(sys, n) == startY + n * sys.rocketVelocity[2]

\* C17: a system is in ROCKET exactly as long as its rocket, started at -60
\* and raised by its ascent velocity on every unpaused tick, is below the
\* targetY of its own spawn request: it leaves on the first tick that
\* brings it there, never earlier and never later.
C17_ExplodesAtOwnHeight ==
    \A i \in 1..Len(systems) :
        LET sys == systems[i]
            h == hist[sys.mesh]
            n == h.ticks["ROCKET"]
        IN  /\ sys.state = "ROCKET" =>
                  /\ sys.rocketPos[2] = RocketHeight(sys, n)
                  /\ sys.rocketPos[2] < h.requestedY
            /\ sys.state # "ROCKET" =>
                  /\ n >= 1
                  /\ RocketHeight(sys, n) >= h.requestedY
                  /\ RocketHeight(sys, n - 1) < h.requestedY

\* C17 witness: the second firework of a run, requested at height -20 with
\* ascent velocity 0.8, has exploded on its 50th tick.
C17_Witness ==
    \E i \in 1..Len(systems) :
        /\ systems[i].state = "EXPLODING"
        /\ systems[i].mesh = 2
        /\ hist[systems[i].mesh].requestedY = -20000
        /\ hist[systems[i].mesh].ticks["ROCKET"] = 50

----------------------------------------------------------------------------
(* Properties of the finale (FinaleSpec) *)

\* The texts spawnRandomFirework chooses from.
RandomTexts == { texts[i] : i \in 1..Len(texts) }

----------------------------------------------------------------------------
(* GestureService: the classifier of hand landmarks (gesture.service.ts)   *)
(* Landmark coordinates are in 1/1000 of the image, as <<x, y, z>>.        *)

WRIST == 0
THUMB_TIP == 4
INDEX_TIP == 8
MIDDLE_TIP == 12
RING_TIP == 16
PINKY_TIP == 20

\* The landmarks processHand reads: wrist, thumb tip, and the knuckle (tip - 3)
\* and tip of the four fingers.
LandmarkIds == {WRIST, THUMB_TIP} \cup UNION { {t - 3, t} : t \in {INDEX_TIP, MIDDLE_TIP, RING_TIP, PINKY_TIP} }

\* The square of getDistance(p1, p2).  Math.sqrt is increasing, so comparing
\* distances is comparing their squares.
DistanceSq(p1, p2) ==
    (p1[1] - p2[1]) * (p1[1] - p2[1]) + (p1[2] - p2[2]) * (p1[2] - p2[2])
        + (p1[3] - p2[3]) * (p1[3] - p2[3])

\* A coordinate that is not a number, and a landmark whose x, y and z are
\* not numbers (undefined or NaN).
NaN == "NaN"
NonNumeric == << >>
IsNumeric(p) == p # NonNumeric

\* getDistance(p1, p2) is NaN when a coordinate of p1 or p2 is not a number;
\* every comparison with NaN is false.
IsNaNDistance(p1, p2) == ~IsNumeric(p1) \/ ~IsNumeric(p2)

\* getDistance(wrist, tip) > getDistance(wrist, mcp) * 1.3
isFingerExtended(l, tipIdx) ==
    /\ ~IsNaNDistance(l[WRIST], l[tipIdx])
    /\ ~IsNaNDistance(l[WRIST], l[tipIdx - 3])
    /\ 100 * DistanceSq(l[WRIST], l[tipIdx]) > 169 * DistanceSq(l[WRIST], l[tipIdx - 3])

\* Mutant: a thumb tip at exactly 0.05 from the index tip counts as a pinch.
PinchCloseInclusive(l) ==
    /\ ~IsNaNDistance(l[THUMB_TIP], l[INDEX_TIP])
    /\ DistanceSq(l[THUMB_TIP], l[INDEX_TIP]) <= 50 * 50

\* pinchDist < 0.05
PinchClose(l) ==
    /\ ~IsNaNDistance(l[THUMB_TIP], l[INDEX_TIP])
    /\ DistanceSq(l[THUMB_TIP], l[INDEX_TIP]) < 50 * 50

\* Mutant: the pinch is looked at before the fist.
processHandPinchFirst(l) ==
    [gesture |-> IF PinchClose(l) THEN "PINCH" ELSE "FIST",
     x |-> 1000 - l[INDEX_TIP][1], y |-> l[INDEX_TIP][2], z |-> l[INDEX_TIP][3],
     isPresent |-> TRUE]

\* processHand(landmarks): the hand state it sets.
processHand(l) ==
    LET isIndexExt == isFingerExtended(l, INDEX_TIP)
        isMiddleExt == isFingerExtended(l, MIDDLE_TIP)
        isRingExt == isFingerExtended(l, RING_TIP)
        isPinkyExt == isFingerExtended(l, PINKY_TIP)
        gesture ==
            IF ~isIndexExt /\ ~isMiddleExt /\ ~isRingExt /\ ~isPinkyExt THEN "FIST"
            ELSE IF PinchClose(l)
              THEN (IF isMiddleExt /\ isRingExt /\ isPinkyExt THEN "OK_SIGN" ELSE "PINCH")
            ELSE IF isIndexExt /\ isMiddleExt /\ ~isPinkyExt THEN "V_SIGN"
            ELSE IF isIndexExt /\ isMiddleExt /\ isRingExt /\ isPinkyExt THEN "OPEN_PALM"
            ELSE "IDLE"
        indexTip == l[INDEX_TIP]
    IN  [gesture |-> gesture,
         x |-> IF IsNumeric(indexTip) THEN 1000 - indexTip[1] ELSE NaN,
         y |-> IF IsNumeric(indexTip) THEN indexTip[2] ELSE NaN,
         z |-> IF IsNumeric(indexTip) THEN indexTip[3] ELSE NaN,
         isPresent |-> TRUE]

\* processHand reads a coordinate of every landmark in LandmarkIds; reading
\* one of an absent landmark (undefined) is a TypeError.
Throws(l) == \E id \in LandmarkIds : id \notin DOMAIN l

\* The hand state set when no hand is in the image.
NoHand == [gesture |-> "IDLE", x |-> 500, y |-> 500, z |-> 0, isPresent |-> FALSE]

\* The hands the tracker reports.  The wrist is at (0.5, 0.9); the knuckle of
\* each finger is 0.3 from it; each finger tip is on the ray through its
\* knuckle at 0.2 (curled), 0.39 (exactly 1.3 times the knuckle distance) or
\* 0.4 (extended) from the wrist; the thumb tip is on the index tip, 0.049 or
\* exactly 0.05 from it, or 0.2 away.
FingerRay(tipIdx) ==
    CASE tipIdx = INDEX_TIP -> <<-3, -4>>
      [] tipIdx = MIDDLE_TIP -> <<0, -5>>
      [] tipIdx = RING_TIP -> <<3, -4>>
      [] tipIdx = PINKY_TIP -> <<4, -3>>

OnRay(tipIdx, r) == <<500 + (FingerRay(tipIdx)[1] * r) \div 5, 900 + (FingerRay(tipIdx)[2] * r) \div 5, 0>>

TipReaches == {200, 390, 400}

ThumbOffsets == { <<0, 0, 0>>, <<0, 0, 49>>, <<30, 40, 0>>, <<200, 0, 0>> }

Hand(reach, thumb) ==
    [id \in LandmarkIds |->
        IF id = WRIST THEN <<500, 900, 0>>
        ELSE IF id = THUMB_TIP
          THEN << OnRay(INDEX_TIP, reach[INDEX_TIP])[1] + thumb[1],
                  OnRay(INDEX_TIP, reach[INDEX_TIP])[2] + thumb[2], thumb[3] >>
        ELSE IF id \in DOMAIN reach THEN OnRay(id, reach[id])
        ELSE OnRay(id + 3, 300)]

TrackedHands ==
    { Hand(reach, thumb) : reach \in [{INDEX_TIP, MIDDLE_TIP, RING_TIP, PINKY_TIP} -> TipReaches],
                           thumb \in ThumbOffsets }

\* onResults with the landmarks l of a hand: an exception of processHand is
\* not caught, and then the hand state is not set.
onResults(l) ==
    /\ landmarks' = l
    /\ fault' = Throws(l)
    /\ handState' = IF Throws(l) THEN handState ELSE processHand(l)
    /\ UNCHANGED <<engineVars, handVars, envVars, obsVars, finaleLog, showVars>>

\* onResults with a hand in the image.
TrackHand == \E l \in TrackedHands : onResults(l)

\* onResults with no hand in the image.
TrackNothing ==
    /\ landmarks' = << >>
    /\ handState' = NoHand
    /\ fault' = FALSE
    /\ UNCHANGED <<engineVars, handVars, envVars, obsVars, finaleLog, showVars>>

TrackerNext ==
    \/ TrackHand
    \/ TrackNothing

TrackerSpec == Init /\ [][TrackerNext]_vars

\* Hands with all four fingers at the same reach, and what a tracker result
\* with bad data makes of them: one landmark absent, one landmark without
\* numeric coordinates, or all landmarks on one point.
UniformHands ==
    { Hand([t \in {INDEX_TIP, MIDDLE_TIP, RING_TIP, PINKY_TIP} |-> r], thumb) :
        r \in TipReaches, thumb \in ThumbOffsets }

Without(l, id) == [k \in (DOMAIN l) \ {id} |-> l[k]]

Garbled(l, id) == [l EXCEPT ![id] = NonNumeric]

Coincident(p) == [id \in LandmarkIds |-> p]

DegenerateHands ==
    { Without(l, id) : l \in UniformHands, id \in LandmarkIds }
        \cup { Garbled(l, id) : l \in UniformHands, id \in LandmarkIds }
        \cup { Coincident(l[id]) : l \in UniformHands, id \in {WRIST, INDEX_TIP} }

\* onResults with a hand whose landmark data is bad.
TrackDegenerate == \E l \in DegenerateHands : onResults(l)

DegenerateNext ==
    \/ TrackDegenerate
    \/ TrackHand
    \/ TrackNothing

DegenerateSpec == Init /\ [][DegenerateNext]_vars

----------------------------------------------------------------------------
(* Properties of the classifier (TrackerSpec) *)

HandSeen == landmarks # << >>

Fingers == {INDEX_TIP, MIDDLE_TIP, RING_TIP, PINKY_TIP}

\* The fingers whose tip is more than 1.3 times as far from the wrist as
\* its knuckle.
ExtendedFingers == { t \in Fingers : isFingerExtended(landmarks, t) }

\* C13: with none of the index, middle, ring and pinky fingers extended the
\* gesture is FIST, wherever the thumb is.
C13_CurledIsFist ==
    (HandSeen /\ ExtendedFingers = {}) => handState.gesture = "FIST"

\* C13 witness: a hand with four curled fingers and the thumb tip on the index tip.
C13_Witness ==
    /\ HandSeen /\ ExtendedFingers = {}
    /\ landmarks[THUMB_TIP] = landmarks[INDEX_TIP]
    /\ handState.gesture = "FIST"

\* The gesture the ordered chain of rules picks from the extended fingers
\* and the pinch test: the first rule that matches.
FirstMatch(ext, pinch) ==
    LET rules == << [when |-> ext = {}, then |-> "FIST"],
                    [when |-> pinch /\ {MIDDLE_TIP, RING_TIP, PINKY_TIP} \subseteq ext, then |-> "OK_SIGN"],
                    [when |-> pinch, then |-> "PINCH"],
                    [when |-> {INDEX_TIP, MIDDLE_TIP} \subseteq ext /\ PINKY_TIP \notin ext, then |-> "V_SIGN"],
                    [when |-> ext = Fingers, then |-> "OPEN_PALM"],
                    [when |-> TRUE, then |-> "IDLE"] >>
        first == CHOOSE n \in 1..Len(rules) :
                    rules[n].when /\ \A m \in 1..(n - 1) : ~rules[m].when
    IN  rules[first].then

\* C14: the gesture is the one the first matching rule of the chain gives,
\* and it is neither PINCH nor OK_SIGN when the thumb tip is 0.05 or more
\* from the index tip.
C14_FirstMatchWins ==
    HandSeen =>
        LET pinchSq == DistanceSq(landmarks[THUMB_TIP], landmarks[INDEX_TIP])
        IN  /\ handState.gesture = FirstMatch(ExtendedFingers, pinchSq < 2500)
            /\ pinchSq >= 2500 => handState.gesture \notin {"PINCH", "OK_SIGN"}

\* C14 witness: all four fingers extended with the thumb tip on the index
\* tip (rules 2 and 4 both match) gives OK_SIGN.
C14_Witness ==
    /\ HandSeen /\ ExtendedFingers = Fingers
    /\ DistanceSq(landmarks[THUMB_TIP], landmarks[INDEX_TIP]) < 2500
    /\ handState.gesture = "OK_SIGN"

----------------------------------------------------------------------------
(* The scripted show: startShow and runTextLoop *)

\* text.length of the phrases of the source.
TextLength(text) == IF text = "zhu-da-jia" THEN 3 ELSE 4

\* const scale = text.length > 2 ? 0.25 : 0.35
ScaleFor(text) == IF TextLength(text) > 2 THEN 250 ELSE 350

\* Mutant: the loop does not advance to the next phrase.
NextIndexStuck(index) == index

\* index = (index + 1) % sequence.length
NextIndex(index) == (index + 1) % Len(sequence)

\* Where a coroutine is once it has reached the pause check with this index:
\* asleep in the pause poll, or (having spawned) asleep in the display wait.
PauseCheck(index) ==
    IF isPaused
      THEN [ended |-> FALSE, spawn |-> FALSE,
            loop |-> [pc |-> "paused", index |-> index, elapsed |-> 0, wake |-> PollInterval]]
      ELSE [ended |-> FALSE, spawn |-> TRUE,
            loop |-> [pc |-> "display", index |-> index, elapsed |-> 0, wake |-> PollInterval]]

\* From the top of while (true), with the mode m.
LoopTop(m, index) ==
    IF m # "SHOW"
      THEN [ended |-> TRUE, spawn |-> FALSE,
            loop |-> [pc |-> "ended", index |-> index, elapsed |-> 0, wake |-> 0]]
      ELSE PauseCheck(index)

\* A coroutine runs on from the await it was asleep in to its next await.
AfterWake(lp) ==
    IF lp.pc = "paused" THEN PauseCheck(lp.index)
    ELSE LET elapsed == IF ~isPaused THEN lp.elapsed + PollInterval ELSE lp.elapsed
         IN  IF elapsed < duration
               THEN [ended |-> FALSE, spawn |-> FALSE,
                     loop |-> [lp EXCEPT !.elapsed = elapsed, !.wake = PollInterval]]
               ELSE LoopTop(mode, NextIndex(lp.index))

\* What a run of a coroutine does to the engine: the scripted spawn, if it
\* makes one.
ScriptedSpawn(r, d) ==
    IF r.spawn
      THEN LET text == sequence[r.loop.index + 1]
           IN  /\ Len(scriptLog) < MaxPhrases
               /\ spawnRocketFirework(text, ScaleFor(text), 0, 0, None, d)
               /\ scriptLog' = Append(scriptLog, [text |-> text, scale |-> ScaleFor(text),
                                                   targetX |-> 0, targetY |-> 0])
               /\ unpausedFor' = 0
      ELSE UNCHANGED <<systems, scene, textPointsCache, nextId, disposed, hist,
                       lastResolve, resolveLog, scriptLog, unpausedFor>>

\* startShow(): sets the mode and calls runTextLoop, which runs to its first
\* await.  Nothing in it looks at a loop that is running already.
startShow ==
    /\ mode' = "SHOW"
    /\ currentAction' = "SHOW STARTED"
    /\ \E d \in TriggerDraws :
          LET r == LoopTop("SHOW", 0)
          IN  /\ ScriptedSpawn(r, d)
              /\ loops' = IF r.ended THEN loops ELSE Append(loops, r.loop)
    /\ UNCHANGED <<currentPaletteIndex, isPaused, isHandDetected, handGesture, mouse,
                   lastTriggerTime, cameraZ, envVars, lastCall, lastFiredAt, finaleLog,
                   trackerVars>>

\* startShow(), called once by the start button.
StartShow ==
    /\ mode # "SHOW"
    /\ loops = << >>
    /\ startShow

\* startShow(), called by the host whenever it likes (it is part of the
\* control surface), up to MaxLoops times.
StartShowAgain ==
    /\ Len(loops) < MaxLoops
    /\ startShow

\* The setTimeout of a sleeping coroutine fires and the coroutine runs on.
LoopWakes ==
    \E i \in 1..Len(loops), d \in TriggerDraws :
        /\ loops[i].wake = 0
        /\ LET r == AfterWake(loops[i])
           IN  /\ ScriptedSpawn(r, d)
               /\ loops' = IF r.ended
                              THEN SubSeq(loops, 1, i - 1) \o SubSeq(loops, i + 1, Len(loops))
                              ELSE [loops EXCEPT ![i] = r.loop]
        /\ UNCHANGED <<currentPaletteIndex, isPaused, handVars, envVars, lastCall,
                       lastFiredAt, finaleLog, mode, trackerVars>>

\* The time to the next wake-up, at most ClockStep.
Passing ==
    LET wakes == { loops[i].wake : i \in 1..Len(loops) }
    IN  Min(ClockStep, CHOOSE w \in wakes : \A v \in wakes : w <= v)

\* Time passes while every coroutine is asleep.
ShowClock ==
    /\ loops # << >>
    /\ \A i \in 1..Len(loops) : loops[i].wake > 0
    /\ loops' = [i \in 1..Len(loops) |-> [loops[i] EXCEPT !.wake = @ - Passing]]
    /\ unpausedFor' = IF isPaused THEN unpausedFor ELSE Min(duration, unpausedFor + Passing)
    /\ UNCHANGED <<engineVars, handVars, envVars, obsVars, finaleLog, mode, scriptLog,
                   trackerVars>>

ShowNext ==
    \/ StartShow
    \/ LoopWakes
    \/ ShowClock
    \/ TogglePause

ShowSpec == Init /\ [][ShowNext]_vars

\* The show with repeated startShow calls, never paused.
RestartNext ==
    \/ StartShowAgain
    \/ LoopWakes
    \/ ShowClock

RestartSpec == Init /\ [][RestartNext]_vars

----------------------------------------------------------------------------
(* Properties of the scripted show (ShowSpec) *)

\* C18: no scripted firework is spawned while the engine is paused, and
\* between two consecutive scripted spawns the engine has been unpaused for
\* at least 4000 ms.
C18_PausedTimeNotCounted ==
    [][Len(scriptLog') > Len(scriptLog)
         => /\ ~isPaused
            /\ Len(scriptLog) > 0 => unpausedFor >= duration]_vars

\* C19: the k-th scripted spawn request (from 0) is for phrase k mod 4 and
\* centred, however the show was paused and resumed.
C19_PhrasesInOrder ==
    \A k \in 1..Len(scriptLog) :
        /\ scriptLog[k].text = sequence[((k - 1) % Len(sequence)) + 1]
        /\ scriptLog[k].targetX = 0
        /\ scriptLog[k].targetY = 0

\* C19 witness: the fifth request (the first phrase again) has been made and
\* the show is paused during the display of that phrase, with a poll that
\* found it paused behind it.
C19_Witness ==
    /\ Len(scriptLog) = MaxPhrases
    /\ scriptLog[MaxPhrases].text = sequence[1]
    /\ isPaused
    /\ \E i \in 1..Len(loops) : loops[i].elapsed < unpausedFor

----------------------------------------------------------------------------
(* Properties of the continuous zoom (CooldownSpec) *)

\* C21: on every render tick, paused or not and whether or not the cooldown
\* is running, the camera distance goes down by zoomSpeed (not below 10)
\* when the stored hand state is present with PINCH, up by zoomSpeed (not
\* above 120) when it is present with OPEN_PALM; and no step that ends with
\* one of the two gestures stored, be it their delivery or a tick, changes
\* the cooldown timestamp.
C21_ZoomUngated ==
    /\ [][Animate
           => /\ (isHandDetected /\ handGesture = "PINCH")
                    => cameraZ' = Max(MinCameraZ, cameraZ - zoomSpeed)
              /\ (isHandDetected /\ handGesture = "OPEN_PALM")
                    => cameraZ' = Min(MaxCameraZ, cameraZ + zoomSpeed)
              /\ lastTriggerTime' = lastTriggerTime]_vars
    /\ [][handGesture' \in {"PINCH", "OPEN_PALM"}
           => lastTriggerTime' = lastTriggerTime]_vars

\* C21 witness: paused, with the cooldown of an OK_SIGN in force (its
\* timestamp is the current time), a present PINCH has zoomed all the way in.
C21_Witness ==
    /\ isPaused
    /\ isHandDetected /\ handGesture = "PINCH"
    /\ lastTriggerTime = now
    /\ cameraZ = MinCameraZ
    /\ currentAction = "ZOOM IN (PINCH)"

----------------------------------------------------------------------------
(* Properties of the classifier on bad landmark data (DegenerateSpec) *)

\* Landmark data that is missing or degenerate: a landmark processHand reads
\* is absent or has no numeric coordinates, or all landmarks coincide.
Degenerate(l) ==
    \/ \E id \in LandmarkIds : id \notin DOMAIN l
    \/ \E id \in LandmarkIds \cap DOMAIN l : ~IsNumeric(l[id])
    \/ \A a, b \in DOMAIN l : l[a] = l[b]

\* C22: after a tracker result with a hand whose landmark data is missing or
\* degenerate, no exception has escaped the classifier and the hand state
\* is that of a present hand with gesture IDLE.
C22_DegenerateIsIdle ==
    (HandSeen /\ Degenerate(landmarks))
        => /\ ~fault
           /\ handState.isPresent
           /\ handState.gesture = "IDLE"

----------------------------------------------------------------------------
(* Properties of the target shape at different scales (ScaleSpec) *)

\* C23: the shape an ordinary-text request resolves to (when it is not
\* empty) has the point of each inked pixel at the pixel's offset from the
\* canvas centre times the scale of that request, and the shapes resolved
\* for one text at two different scales differ.
C23_ShapeFollowsScale ==
    /\ \A k \in DOMAIN resolveLog :
          (k[3] = None /\ resolveLog[k].targets.count > 0) =>
              LET shape == resolveLog[k].targets
                  ink == InkOf(k[1])
                  width == CanvasWidth(k[1])
                  height == (fontSize * 3) \div 2
              IN  \A j \in 1..Len(shape.points) :
                     /\ shape.points[j][1] = Div((ink[j].x * 1000 - width * 500) * k[2], 1000)
                     /\ shape.points[j][2] = -Div((ink[j].y * 1000 - height * 500) * k[2], 1000)
    /\ \A k1, k2 \in DOMAIN resolveLog :
          ( /\ k1[3] = None /\ k2[3] = None
            /\ k1[1] = k2[1] /\ k1[2] # k2[2]
            /\ resolveLog[k1].targets.count > 0
            /\ resolveLog[k2].targets.count > 0 )
              => resolveLog[k1].targets # resolveLog[k2].targets

----------------------------------------------------------------------------
(* Properties of the opacity (Spec) *)

\* C24: a registered system has opacity 1 in ROCKET and EXPLODING, between
\* 0.5 and 1 in WEAVING, and above 0 always; from one state to the next its
\* opacity never goes up; it is 0.5 at the end of the tick that takes it
\* from WEAVING to FADING, and every unpaused tick on a system in FADING
\* that stays registered takes 0.02 off.
C24_OpacityProfile ==
    /\ [](\A i \in 1..Len(systems) :
            /\ systems[i].state \in {"ROCKET", "EXPLODING"} => systems[i].opacity = 1000
            /\ systems[i].state = "WEAVING"
                  => (systems[i].opacity >= 500 /\ systems[i].opacity <= 1000)
            /\ systems[i].opacity > 0)
    /\ [][\A i \in 1..Len(systems), j \in 1..Len(systems') :
            systems[i].mesh = systems'[j].mesh =>
                /\ systems'[j].opacity <= systems[i].opacity
                /\ (systems[i].state = "WEAVING" /\ systems'[j].state = "FADING")
                      => systems'[j].opacity = 500
                /\ (systems[i].state = "FADING" /\ ~isPaused /\ Animate)
                      => systems'[j].opacity = systems[i].opacity - FadeStep]_vars

\* C24 witness: a system on the last tick of its fade that leaves it in the
\* registry (opacity 0.02), with the engine paused.
C24_Witness ==
    /\ isPaused
    /\ \E i \in 1..Len(systems) :
          /\ systems[i].state = "FADING"
          /\ systems[i].opacity = FadeStep
          /\ hist[systems[i].mesh].ticks["FADING"] = 24

----------------------------------------------------------------------------
(* Properties of the target offsets (Spec) *)

\* C25: no step changes the target offsets of a system that stays
\* registered, nor a shape that is in the cache; every shape in the cache
\* is the one first computed for its request; and the offsets of every
\* registered system are the points of the cached shape with its count.
C25_TargetsNeverWritten ==
    /\ [][/\ \A i \in 1..Len(systems), j \in 1..Len(systems') :
               systems[i].mesh = systems'[j].mesh
                   => systems'[j].originalPositions = systems[i].originalPositions
           /\ \A k \in DOMAIN textPointsCache :
               /\ k \in DOMAIN textPointsCache'
               /\ textPointsCache'[k] = textPointsCache[k]]_vars
    /\ [](/\ \A key \in DOMAIN resolveLog :
               resolveLog[key].stored
                   => textPointsCache[CacheKey(key[1], key[3])] = resolveLog[key].targets
           /\ \A i \in 1..Len(systems) :
               \E k \in DOMAIN textPointsCache :
                   /\ textPointsCache[k].count = systems[i].count
                   /\ textPointsCache[k].points = systems[i].originalPositions)

\* C25 witness: two registered systems made from the same cached text
\* shape, the older one at the end of its fade after ticks in all four
\* states, the newer one a rocket that has been ticked.
C25_Witness ==
    /\ Len(systems) = 2
    /\ systems[1].originalPositions = systems[2].originalPositions
    /\ systems[1].originalPositions = textPointsCache["2026"].points
    /\ systems[1].state = "FADING"
    /\ systems[2].state = "ROCKET"
    /\ hist[systems[2].mesh].ticks["ROCKET"] > 0

----------------------------------------------------------------------------
(* Properties of the render loop over the registry (BurstSpec) *)

\* C26: on an unpaused render tick every system of the registry is advanced
\* exactly once: afterwards it is either in the registry as one loop body
\* leaves it, with one more tick counted, or it is the system that loop
\* body removes and it has been released once; the systems that stay keep
\* their order.
C26_EachAdvancedOnce ==
    [][(~isPaused /\ Animate) =>
         /\ \A i \in 1..Len(systems) :
               \E pd \in [1..TrackedParticles -> ParticleDraws(systems[i].state)] :
                   LET r == AdvanceSystem(systems[i], pd)
                       id == systems[i].mesh
                   IN  IF r.remove
                         THEN /\ \A j \in 1..Len(systems') : systems'[j].mesh # id
                              /\ disposed'[id] = disposed[id] + 1
                         ELSE /\ \E j \in 1..Len(systems') : systems'[j] = r.sys
                              /\ hist'[id].ticks[systems[i].state]
                                    = hist[id].ticks[systems[i].state] + 1
                              /\ disposed'[id] = disposed[id]
         /\ \A j \in 1..Len(systems') :
               \E i \in 1..Len(systems) : systems[i].mesh = systems'[j].mesh
         /\ \A j1, j2 \in 1..Len(systems') :
               j1 < j2 => systems'[j1].mesh < systems'[j2].mesh]_vars

\* C26 witness: the later of two systems has been removed from the end of
\* the registry while the earlier one, still fading, stayed in it.
C26_Witness ==
    /\ Len(systems) = 1
    /\ systems[1].mesh = 1
    /\ systems[1].state = "FADING"
    /\ 2 \in DOMAIN disposed
    /\ disposed[2] = 1
    /\ hist[2].releasedIn = "FADING"

----------------------------------------------------------------------------
(* Properties of repeated startShow calls (RestartSpec) *)

\* C27: however often startShow is called, at most one runTextLoop is
\* running, the scripted spawn requests are in phrase order, and each one
\* after the first comes a full display interval (4000 ms) after the one
\* before it.
C27_SingleLoop ==
    /\ [](Len(loops) <= 1)
    /\ [](\A k \in 1..Len(scriptLog) :
            scriptLog[k].text = sequence[((k - 1) % Len(sequence)) + 1])
    /\ [][(Len(scriptLog') > Len(scriptLog) /\ Len(scriptLog) > 0)
            => unpausedFor >= duration]_vars

====
